---- MODULE Spec2Model ----
(***************************************************************************)
(* Model of src/main.cpp: an Arduino sketch that polls one push button and *)
(* drives three PWM channels (red, green, blue) through a sequence of      *)
(* colour states selected by the global counter loopCount.                 *)
(*                                                                         *)
(* The program is a single thread.  Its position is pc:                    *)
(*   "poll"          at the top of loop(), about to read the button        *)
(*   "changeLights"  loopCount was incremented, changeLights() is entered  *)
(*   "gradualLights" gradualLights() is entered, nothing written yet       *)
(*   "fade"          inside one of the six for-loops of gradualLights()    *)
(*   "delay"         changeLights() has returned, delay(500) is running    *)
(* The button is an input of the environment and may change level at any   *)
(* time, whatever the program is doing.                                    *)
(***************************************************************************)
EXTENDS Integers, Sequences, FiniteSets, TLC

\* ---- program constants -------------------------------------------------
Red == 25
Green == 26
Blue == 27
HIGH == 1
LOW == 0
Pins == {Red, Green, Blue}

\* ---- bounds of the model -----------------------------------------------
\* number of button presses handled before the model stops accepting more
MaxPresses == 6
\* button level changes counted during one fade (the count saturates here)
MaxToggles == 3

VARIABLES
    loopCount,   \* int loopCount
    chan,        \* duty cycle last written to each pin by analogWrite
    button,      \* level currently present on the button pin
    pc,          \* position of the program
    phase,       \* which of the six for-loops of gradualLights runs (0: none)
    i,           \* the loop variable of that for-loop
    \* history variables: they record what happened, the program never reads them
    presses,     \* number of executions of loopCount++
    edges,       \* released-to-pressed transitions in the sequence of polled levels
    lastSeen,    \* level returned by the latest digitalRead
    sampled,     \* the latest program step was a digitalRead
    dispatched,  \* value of loopCount at the latest entry of changeLights
    fadeLog,     \* the writes of the latest gradualLights, in order, each as
                 \* <<for-loop that wrote (0: before the loops), pin, value>>
    fadeToggles  \* button level changes since the latest gradualLights began

vars == <<loopCount, chan, button, pc, phase, i, presses, edges, lastSeen,
          sampled, dispatched, fadeLog, fadeToggles>>

\* analogWrite(pin, value) applied to the channel values c
analogWrite(c, pin, value) == [c EXCEPT ![pin] = value]

\* setup(): globals initialised, nothing written to the channels yet
Init ==
    /\ loopCount = 0
    /\ chan = [p \in Pins |-> 0]
    /\ button \in {LOW, HIGH}
    /\ pc = "poll"
    /\ phase = 0
    /\ i = 0
    /\ presses = 0
    /\ edges = 0
    /\ lastSeen = LOW
    /\ sampled = FALSE
    /\ dispatched = 0
    /\ fadeLog = <<>>
    /\ fadeToggles = 0

\* the environment changes the level on the button pin
ButtonChange ==
    /\ button' = IF button = HIGH THEN LOW ELSE HIGH
    /\ fadeToggles' = IF pc \in {"gradualLights", "fade"} /\ fadeToggles < MaxToggles
                      THEN fadeToggles + 1 ELSE fadeToggles
    /\ UNCHANGED <<loopCount, chan, pc, phase, i, presses, edges, lastSeen,
                   sampled, dispatched, fadeLog>>

\* a loop() that tests the button for LOW
loop_inverted ==
    /\ pc = "poll"
    /\ lastSeen' = button
    /\ sampled' = TRUE
    /\ edges' = IF lastSeen = LOW /\ button = HIGH THEN edges + 1 ELSE edges
    /\ IF button = LOW
       THEN /\ presses < MaxPresses
            /\ loopCount' = loopCount + 1
            /\ presses' = presses + 1
            /\ pc' = "changeLights"
       ELSE UNCHANGED <<loopCount, presses, pc>>
    /\ UNCHANGED <<chan, button, phase, i, dispatched, fadeLog, fadeToggles>>

\* loop(): if (digitalRead(button) == HIGH) { loopCount++; ... changeLights(); ...}
loop ==
    /\ pc = "poll"
    /\ lastSeen' = button
    /\ sampled' = TRUE
    /\ edges' = IF lastSeen = LOW /\ button = HIGH THEN edges + 1 ELSE edges
    /\ IF button = HIGH
       THEN /\ presses < MaxPresses
            /\ loopCount' = loopCount + 1
            /\ presses' = presses + 1
            /\ pc' = "changeLights"
       ELSE UNCHANGED <<loopCount, presses, pc>>
    /\ UNCHANGED <<chan, button, phase, i, dispatched, fadeLog, fadeToggles>>

\* a changeLights() whose second branch is a copy of the first
branchTwo_copied(c) ==
    analogWrite(analogWrite(analogWrite(c, Red, 0), Blue, 255), Green, 255)

\* changeLights(), the writes of the branch loopCount == 1
branchOne(c) ==
    analogWrite(analogWrite(analogWrite(c, Red, 0), Blue, 255), Green, 255)

\* changeLights(), the writes of the branch loopCount == 2
branchTwo(c) ==
    analogWrite(analogWrite(analogWrite(c, Red, 255), Blue, 255), Green, 0)

\* changeLights(), the writes of the branch loopCount == 3
branchThree(c) ==
    analogWrite(analogWrite(analogWrite(analogWrite(c, Blue, 0), Red, 255), Blue, 0), Green, 255)

\* a lightsOff() that writes the other extreme
lightsOff_zero(c) ==
    analogWrite(analogWrite(analogWrite(c, Red, 0), Green, 0), Blue, 0)

\* lightsOff(): the values of the channels after it
lightsOff(c) ==
    analogWrite(analogWrite(analogWrite(c, Red, 255), Green, 255), Blue, 255)

\* an if-chain whose fourth condition is loopCount >= 4
Branch_atLeastFour(n) ==
    IF n = 1 THEN 1 ELSE IF n = 2 THEN 2 ELSE IF n = 3 THEN 3
    ELSE IF n >= 4 THEN 4 ELSE IF n = 5 THEN 5 ELSE 0

\* an if-chain whose last condition tests the value after the wrap value
Branch_late(n) ==
    IF n = 1 THEN 1 ELSE IF n = 2 THEN 2 ELSE IF n = 3 THEN 3
    ELSE IF n = 4 THEN 4 ELSE IF n = 6 THEN 5 ELSE 0

\* an if-chain whose third condition is a copy of the second
Branch_duplicated(n) ==
    IF n = 1 THEN 1 ELSE IF n = 2 THEN 2 ELSE IF n = 2 THEN 3
    ELSE IF n = 4 THEN 4 ELSE IF n = 5 THEN 5 ELSE 0

\* changeLights(): the branch of the if / else-if chain taken when loopCount
\* is n (0: no condition holds, the chain has no final else)
Branch(n) ==
    IF n = 1 THEN 1 ELSE IF n = 2 THEN 2 ELSE IF n = 3 THEN 3
    ELSE IF n = 4 THEN 4 ELSE IF n = 5 THEN 5 ELSE 0

\* a last branch without its assignment to loopCount
loopCountAfter_kept(b, n) == n

\* changeLights(): loopCount after branch b was run with loopCount = n; only
\* the last branch assigns it
loopCountAfter(b, n) == IF b = 5 THEN 0 ELSE n

\* changeLights(): the channel values after branch b; the fourth branch
\* writes nothing itself, it calls gradualLights()
chanAfter(b, c) ==
    CASE b = 1 -> branchOne(c)
      [] b = 2 -> branchTwo(c)
      [] b = 3 -> branchThree(c)
      [] b = 5 -> lightsOff(c)
      [] OTHER -> c

\* changeLights(): the if / else-if chain on loopCount
changeLights ==
    /\ pc = "changeLights"
    /\ dispatched' = loopCount
    /\ sampled' = FALSE
    /\ chan' = chanAfter(Branch(loopCount), chan)
    /\ loopCount' = loopCountAfter(Branch(loopCount), loopCount)
    /\ pc' = IF Branch(loopCount) = 4 THEN "gradualLights" ELSE "delay"
    /\ UNCHANGED <<button, phase, i, presses, edges, lastSeen, fadeLog, fadeToggles>>

\* gradualLights(), lines 59-61: the three writes before the first for-loop,
\* then "int i = 255" of the first for-loop
gradualLights ==
    /\ pc = "gradualLights"
    /\ chan' = analogWrite(analogWrite(analogWrite(chan, Red, 0), Blue, 255), Green, 255)
    /\ fadeLog' = << <<0, Red, 0>>, <<0, Blue, 255>>, <<0, Green, 255>> >>
    /\ fadeToggles' = 0
    /\ phase' = 1
    /\ i' = 255
    /\ pc' = "fade"
    /\ sampled' = FALSE
    /\ UNCHANGED <<loopCount, button, presses, edges, lastSeen, dispatched>>

\* number of for-loops in gradualLights()
NumLoops == 6

\* for-loops whose second and third pins are exchanged
LoopPin_exchanged(p) ==
    CASE p = 1 -> Green
      [] p = 2 -> Blue
      [] p = 3 -> Red
      [] p = 4 -> Green
      [] p = 5 -> Red
      [] p = 6 -> Blue

\* for-loops whose last one is a copy of the fourth and writes its pin
LoopPin_lastCopied(p) ==
    CASE p = 1 -> Green
      [] p = 2 -> Red
      [] p = 3 -> Blue
      [] p = 4 -> Green
      [] p = 5 -> Red
      [] p = 6 -> Green

\* the pin written by the p-th for-loop of gradualLights()
LoopPin(p) ==
    CASE p = 1 -> Green
      [] p = 2 -> Red
      [] p = 3 -> Blue
      [] p = 4 -> Green
      [] p = 5 -> Red
      [] p = 6 -> Blue

\* for-loops that all start with int i = 255
LoopInit_allHigh(p) == 255

\* the initial value of i in the p-th for-loop
LoopInit(p) ==
    CASE p = 1 -> 255
      [] p = 2 -> 0
      [] p = 3 -> 255
      [] p = 4 -> 0
      [] p = 5 -> 255
      [] p = 6 -> 0

\* for-loops whose conditions are strict: i > 0 or i < 255
LoopCond_strict(p, n) ==
    CASE p = 1 -> n > 0
      [] p = 2 -> n < 255
      [] p = 3 -> n > 0
      [] p = 4 -> n < 255
      [] p = 5 -> n > 0
      [] p = 6 -> n < 255

\* for-loops that also end when the button is found pressed
LoopCond_button(p, n) ==
    /\ button = LOW
    /\ CASE p = 1 -> n >= 0
         [] p = 2 -> n <= 255
         [] p = 3 -> n >= 0
         [] p = 4 -> n <= 255
         [] p = 5 -> n >= 0
         [] p = 6 -> n <= 255

\* for-loops that run one iteration further: i >= -1 or i <= 256
LoopCond_wide(p, n) ==
    CASE p = 1 -> n >= -1
      [] p = 2 -> n <= 256
      [] p = 3 -> n >= -1
      [] p = 4 -> n <= 256
      [] p = 5 -> n >= -1
      [] p = 6 -> n <= 256

\* the condition of the p-th for-loop: i >= 0 or i <= 255
LoopCond(p, n) ==
    CASE p = 1 -> n >= 0
      [] p = 2 -> n <= 255
      [] p = 3 -> n >= 0
      [] p = 4 -> n <= 255
      [] p = 5 -> n >= 0
      [] p = 6 -> n <= 255

\* the increment of the p-th for-loop: i-- or i++
LoopNext(p, n) ==
    CASE p = 1 -> n - 1
      [] p = 2 -> n + 1
      [] p = 3 -> n - 1
      [] p = 4 -> n + 1
      [] p = 5 -> n - 1
      [] p = 6 -> n + 1

\* one iteration of the running for-loop: analogWrite(pin, i); delay(10); i-- / i++
FadeStep ==
    /\ pc = "fade"
    /\ LoopCond(phase, i)
    /\ chan' = analogWrite(chan, LoopPin(phase), i)
    /\ fadeLog' = Append(fadeLog, <<phase, LoopPin(phase), i>>)
    /\ i' = LoopNext(phase, i)
    /\ sampled' = FALSE
    /\ UNCHANGED <<loopCount, button, pc, phase, presses, edges, lastSeen,
                   dispatched, fadeToggles>>

\* the running for-loop ends: the next one starts, or gradualLights() and
\* changeLights() return after the last one
FadeExit ==
    /\ pc = "fade"
    /\ ~LoopCond(phase, i)
    /\ IF phase < NumLoops
       THEN /\ phase' = phase + 1
            /\ i' = LoopInit(phase + 1)
            /\ pc' = "fade"
       ELSE /\ phase' = 0
            /\ i' = 0
            /\ pc' = "delay"
    /\ sampled' = FALSE
    /\ UNCHANGED <<loopCount, chan, button, presses, edges, lastSeen,
                   dispatched, fadeLog, fadeToggles>>

\* loop(): delay(500) ends and loop() returns; the runtime calls loop() again
delay500 ==
    /\ pc = "delay"
    /\ pc' = "poll"
    /\ sampled' = FALSE
    /\ UNCHANGED <<loopCount, chan, button, phase, i, presses, edges, lastSeen,
                   dispatched, fadeLog, fadeToggles>>

\* the steps of the program
Program == loop \/ changeLights \/ gradualLights \/ FadeStep \/ FadeExit \/ delay500

Next == ButtonChange \/ Program

Spec == Init /\ [][Next]_vars

\* the processor never stops executing the program
FairSpec == Spec /\ WF_vars(Program)

\* ---- the properties ------------------------------------------------------

\* the duty cycle that lights a channel in the states 1-3, and the one that
\* leaves it dark
LitLevel == 0
UnlitLevel == 255

\* the channel lit in state 1, 2 and 3
LitPin == <<Red, Green, Blue>>

\* channel values with exactly the pin q lit
OnlyLit(q) == [p \in Pins |-> IF p = q THEN LitLevel ELSE UnlitLevel]

AllOff == [p \in Pins |-> UnlitLevel]

\* the number of writes of one complete gradualLights()
FadeWrites == 3 + 6 * 256

\* a step that runs changeLights()
Dispatches == pc = "changeLights" /\ pc' # "changeLights"

\* C1: invoked with loopCount = 1, 2, 3 the dispatcher leaves exactly one
\* channel lit, Red, Green and Blue respectively (three different channels),
\* and the other two unlit; with 4 it enters the gradual fade; with 5 it turns
\* all channels off and resets the counter.  A press detected at counter 0
\* makes the counter 1 (and the dispatch that follows lights the first channel).
C1_DispatcherTable ==
    [][ /\ (Dispatches /\ loopCount \in 1..3) =>
              /\ chan' = OnlyLit(LitPin[loopCount])
              /\ loopCount' = loopCount
              /\ pc' = "delay"
        /\ (Dispatches /\ loopCount = 4) =>
              /\ pc' = "gradualLights"
              /\ loopCount' = 4
        /\ (Dispatches /\ loopCount = 5) =>
              /\ chan' = AllOff
              /\ loopCount' = 0
              /\ pc' = "delay"
        /\ (pc = "poll" /\ loopCount = 0 /\ pc' = "changeLights") => loopCount' = 1
        /\ Cardinality({LitPin[n] : n \in 1..3}) = 3
      ]_vars

\* the third state has been dispatched after the first two
C1_Witness ==
    /\ pc = "delay"
    /\ dispatched = 3
    /\ presses = 3
    /\ chan = OnlyLit(Blue)

\* C2 as stated: the dispatch that handles the press detected at counter 4
\* (counter value 5) runs the gradual fade
C2_FadeAtFive ==
    [][(Dispatches /\ loopCount = 5) => pc' = "gradualLights"]_vars

\* C2 amended: a press detected at counter 4 makes the counter 5; the dispatch
\* of that same press turns all channels off and resets the counter to 0
\* without running the fade; the fade is entered only by the dispatch with
\* counter value 4.
C2_OffAtFive ==
    [][ /\ (pc = "poll" /\ loopCount = 4 /\ pc' = "changeLights") => loopCount' = 5
        /\ (Dispatches /\ loopCount = 5) =>
              (pc' = "delay" /\ loopCount' = 0 /\ chan' = AllOff /\ fadeLog' = fadeLog)
        /\ (pc # "gradualLights" /\ pc' = "gradualLights") => (Dispatches /\ loopCount = 4)
      ]_vars

\* the fifth press has been handled: the fade ran during the fourth
C2_Witness ==
    /\ pc = "delay"
    /\ dispatched = 5
    /\ presses = 5
    /\ loopCount = 0
    /\ chan = AllOff
    /\ Len(fadeLog) = FadeWrites

\* C3: the number of increments of the counter equals the number of
\* released-to-pressed transitions in the sequence of polled button levels
C3_OncePerEdge == presses = edges

\* C4: loopCount is 0 before the first press, lies in 0..5 always, and holds 5
\* only between the increment and the dispatch of one press handling (never
\* when the button is polled).
C4_CounterRange ==
    /\ loopCount \in 0..5
    /\ presses = 0 => loopCount = 0
    /\ loopCount = 5 => pc = "changeLights"

\* the counter has reached its wrap value
C4_Witness == loopCount = 5 /\ pc = "changeLights" /\ presses = 5

\* C5: whenever the button is polled the counter equals the number of presses
\* handled modulo 5: it is back at 0 after 5 presses and not after 1..4.
C5_PeriodFive ==
    pc = "poll" =>
        /\ loopCount = presses % 5
        /\ presses \in 1..4 => loopCount # 0
        /\ presses = 5 => loopCount = 0

\* five presses have been handled and the counter is back at 0
C5_Witness == pc = "poll" /\ presses = 5 /\ loopCount = 0

\* C6: when the dispatcher has handled counter value 5, every channel holds
\* the unlit level and the counter is 0; the unlit level is the extreme
\* opposite to the one a lit channel holds after the states 1-3.
C6_AllOffAfterFive ==
    /\ (pc = "delay" /\ dispatched = 5) =>
          /\ \A p \in Pins : chan[p] = UnlitLevel
          /\ loopCount = 0
    /\ (pc = "delay" /\ dispatched \in 1..3) =>
          \E p \in Pins : chan[p] = 255 - UnlitLevel

\* the dispatcher has returned from handling counter value 5
C6_Witness == pc = "delay" /\ dispatched = 5 /\ chan[Red] = UnlitLevel

\* the ramp of each of the six phases: its pin and whether its values go down
PhasePin == <<Green, Red, Blue, Green, Red, Blue>>
PhaseDown == <<TRUE, FALSE, TRUE, FALSE, TRUE, FALSE>>

\* gradualLights() has just returned
FadeReturned == pc = "delay" /\ dispatched = 4

\* the values written by the q-th for-loop, in the order written
ValuesOf(q) ==
    LET w == SelectSeq(fadeLog, LAMBDA e : e[1] = q)
    IN [k \in 1..Len(w) |-> w[k][3]]

\* C7: each of the six phases writes 256 values, every value of 0..255 (hence
\* each exactly once), strictly decreasing from 255 in a down phase and
\* strictly increasing from 0 in an up phase.
C7_EveryValueOnce ==
    FadeReturned =>
        \A q \in 1..6 :
            LET v == ValuesOf(q)
            IN /\ Len(v) = 256
               /\ {v[k] : k \in 1..Len(v)} = 0..255
               /\ \A k \in 1..(Len(v) - 1) :
                     IF PhaseDown[q] THEN v[k + 1] < v[k] ELSE v[k + 1] > v[k]
               /\ v[1] = IF PhaseDown[q] THEN 255 ELSE 0
               /\ v[Len(v)] = IF PhaseDown[q] THEN 0 ELSE 255

\* a complete fade has been run
C7_Witness == FadeReturned /\ Len(fadeLog) = FadeWrites /\ presses = 4

\* C8: the writes of the fade are those of phase 1, then those of phase 2, ...
\* then those of phase 6 (no write of a phase precedes a write of an earlier
\* one, and the next phase starts after the last value of the previous one);
\* every write of phase q goes to the pin of the q-th entry of: green down,
\* red up, blue down, green up, red down, blue up.
C8_PhaseOrder ==
    /\ \A k \in {Len(fadeLog)} \ {0, 1, 2, 3} :
          LET e == fadeLog[k]
              d == fadeLog[k - 1]
          IN /\ e[1] \in 1..6
             /\ e[2] = PhasePin[e[1]]
             /\ e[1] = d[1] \/ e[1] = d[1] + 1
             /\ e[1] = d[1] => e[3] = IF PhaseDown[e[1]] THEN d[3] - 1 ELSE d[3] + 1
             /\ (e[1] # d[1] /\ d[1] # 0) => d[3] = IF PhaseDown[d[1]] THEN 0 ELSE 255
             /\ e[1] # d[1] => e[3] = IF PhaseDown[e[1]] THEN 255 ELSE 0
    /\ FadeReturned =>
          /\ \A k \in 4..(Len(fadeLog) - 1) : fadeLog[k][1] <= fadeLog[k + 1][1]
          /\ \A k \in 4..Len(fadeLog) : fadeLog[k][2] = PhasePin[fadeLog[k][1]]
          /\ {fadeLog[k][1] : k \in 4..Len(fadeLog)} = 1..6

\* the fourth phase has started after the third
C8_Witness ==
    /\ pc = "fade"
    /\ Len(fadeLog) = 3 + 3 * 256 + 1
    /\ fadeLog[Len(fadeLog)] = <<4, Green, 0>>

\* gradualLights() is running
InFade == pc \in {"gradualLights", "fade"}

\* C9: a fade that has begun returns to the polling loop after all its 6 x 256
\* steps; while it runs the button is not sampled and the counter is not
\* changed, whatever the level of the button does.
C9_FadeCompletes ==
    /\ (pc = "gradualLights") ~> (FadeReturned /\ Len(fadeLog) = FadeWrites)
    /\ [][InFade => /\ loopCount' = loopCount
                    /\ presses' = presses
                    /\ lastSeen' = lastSeen
                    /\ ~sampled'
                    /\ (pc' = "delay" => Len(fadeLog') = FadeWrites)]_vars

\* the button was released, pressed and released again during a fade that
\* has returned with the counter still at 4
C9_Witness == FadeReturned /\ fadeToggles = 3 /\ button = LOW /\ loopCount = 4

\* C10: a poll that reads the button as LOW changes neither the counter nor
\* the channels; they change only in the handling of a detected press (the
\* poll that reads HIGH, changeLights(), gradualLights()).
C10_OnlyOnPress ==
    [][ /\ (pc = "poll" /\ button = LOW) => (loopCount' = loopCount /\ chan' = chan)
        /\ (loopCount' # loopCount \/ chan' # chan) =>
              \/ pc = "poll" /\ button = HIGH
              \/ pc \in {"changeLights", "gradualLights", "fade"}
      ]_vars

\* the button was just polled as LOW with a colour on the channels
C10_Witness ==
    /\ pc = "poll"
    /\ sampled
    /\ lastSeen = LOW
    /\ dispatched = 2
    /\ chan = OnlyLit(Green)

\* a step that performs one write of a for-loop of gradualLights()
FadeWrite == pc = "fade" /\ Len(fadeLog') = Len(fadeLog) + 1

\* C11: every value written to a channel lies in 0..255: the value each
\* channel holds (the last one written to it, by any dispatcher action) and
\* every write of the fade, also when the loop variable has left 0..255.
C11_DutyRange ==
    /\ \A p \in Pins : chan[p] \in 0..255
    /\ \A k \in {Len(fadeLog)} \ {0} :
          /\ fadeLog[k][3] \in 0..255
          /\ fadeLog[k][2] \in Pins
    /\ FadeReturned => \A k \in 1..Len(fadeLog) : fadeLog[k][3] \in 0..255

\* a for-loop has ended with its variable below 0 after writing 0
C11_Witness ==
    /\ pc = "fade"
    /\ i = -1
    /\ phase = 3
    /\ chan[Blue] = 0
    /\ fadeLog[Len(fadeLog)] = <<3, Blue, 0>>

\* the channel values after the three writes that open gradualLights()
FadeStart == [p \in Pins |-> fadeLog[CHOOSE k \in 1..3 : fadeLog[k][2] = p][3]]

\* C12: when gradualLights() returns the channels hold red 0, green 255,
\* blue 255, the values written before its first loop and the values the
\* dispatcher leaves for counter value 1; they stay so until the dispatch of
\* the fifth press.
C12_ClosedCycle ==
    /\ (dispatched = 4 /\ pc \in {"delay", "poll", "changeLights"}) =>
          /\ chan = (Red :> 0) @@ (Green :> 255) @@ (Blue :> 255)
          /\ chan = FadeStart
    /\ (dispatched = 1 /\ pc = "delay") =>
          chan = (Red :> 0) @@ (Green :> 255) @@ (Blue :> 255)

\* the fifth press is detected while the colour left by the fade is shown
C12_Witness ==
    /\ pc = "changeLights"
    /\ loopCount = 5
    /\ dispatched = 4
    /\ Len(fadeLog) = FadeWrites
    /\ chan = OnlyLit(Red)

\* C13: every write of the six loops changes the value of the written channel
\* by at most 1 and leaves the other channels alone; the first write of a
\* loop writes the value the channel already holds.
C13_Continuous ==
    [][FadeWrite =>
          LET e == fadeLog'[Len(fadeLog')]
              d == fadeLog[Len(fadeLog)]
          IN /\ chan'[e[2]] = e[3]
             /\ chan'[e[2]] - chan[e[2]] \in {-1, 0, 1}
             /\ \A p \in Pins \ {e[2]} : chan'[p] = chan[p]
             /\ e[1] # d[1] => chan' = chan
      ]_vars

\* the second loop has made its first two writes to Red
C13_Witness ==
    /\ pc = "fade"
    /\ Len(fadeLog) = 3 + 256 + 2
    /\ fadeLog[Len(fadeLog)] = <<2, Red, 1>>
    /\ fadeLog[Len(fadeLog) - 1] = <<2, Red, 0>>

\* C14: the counter is in 0..4 whenever the button is polled, changeLights()
\* is entered only with a counter value in 1..5, and with every such value
\* one of the five branches of its if-chain is taken.
C14_NoFallThrough ==
    /\ pc = "poll" => loopCount \in 0..4
    /\ pc = "changeLights" =>
          /\ loopCount \in 1..5
          /\ Branch(loopCount) \in 1..5
    /\ dispatched \in 0..5
    /\ dispatched = 0 => presses = 0 \/ (presses = 1 /\ pc = "changeLights")

\* the button is polled with the counter at 4, after the fade
C14_Witness == pc = "poll" /\ loopCount = 4 /\ dispatched = 4 /\ sampled
====
